---------------------------- MODULE Spec2Model ----------------------------
(***************************************************************************)
(* The YOLO box post-processing functions of exam_2_part_1 (score filter,  *)
(* iou, non-max suppression, yolo_eval) and the functions of exam_2_part_2 *)
(* (initialize_parameters_he, conv_single_step, pool_forward,              *)
(* triplet_loss), modelled as calls whose arguments are drawn from bounded *)
(* sets.                                                                   *)
(*                                                                         *)
(* Real numbers are modelled exactly: a score, a coordinate and a score    *)
(* threshold are integers, a quotient is a fraction <<num, den>> in lowest *)
(* terms, and an IoU threshold is such a fraction.  A tensor of shape      *)
(* (19, 19, 5, d) is the sequence of its (cell, anchor) rows in row-major  *)
(* order, the order in which tf.boolean_mask enumerates them.              *)
(***************************************************************************)
EXTENDS Integers, Sequences, FiniteSets, TLC

VARIABLES
    pc,       \* the position of the call: the next statement, "done" or "raised"
    args,     \* the arguments of the call
    ret,      \* the locals and the returned value of the call
    calls,    \* the calls yolo_eval has made so far, each with the boxes it was given
    session   \* what outlives a call: the variables initialised in the shared
              \* Keras session, or the state of numpy's global random generator

vars == <<pc, args, ret, calls, session>>

None == "None"

----------------------------------------------------------------------------
(* Bounds of the model *)

MaxFilterBoxes == 3   \* (cell, anchor) positions given to yolo_filter_boxes
MaxCoord == 4         \* largest corner coordinate given to iou
MaxNmsBoxes == 3      \* boxes given to yolo_non_max_suppression
MaxEvalBoxes == 2     \* (cell, anchor) positions given to yolo_eval
MaxBetween == 2       \* calls of yolo_eval made between two calls that are compared
MaxPoolDim == 3       \* largest n_H_prev, n_W_prev and f given to pool_forward
MaxLayers == 3        \* longest layers_dims given to initialize_parameters_he
MaxLayerDim == 3      \* largest layer size in layers_dims
MaxTriplets == 2      \* (anchor, positive, negative) triplets given to triplet_loss
MaxConvF == 2         \* largest window size f given to conv_single_step

----------------------------------------------------------------------------
(* Arithmetic helpers *)

Max2(a, b) == IF a >= b THEN a ELSE b
Min2(a, b) == IF a <= b THEN a ELSE b
Abs(a) == IF a < 0 THEN -a ELSE a

RECURSIVE Gcd(_, _)
Gcd(a, b) == IF b = 0 THEN a ELSE Gcd(b, a % b)

\* The quotient n/d (d # 0) as a fraction in lowest terms with a positive
\* denominator: two quotients are the same number iff their fractions are equal.
Quot(n, d) ==
    LET g == Gcd(Abs(n), Abs(d))
        s == IF d < 0 THEN -1 ELSE 1
    IN  <<(s * n) \div g, (s * d) \div g>>

----------------------------------------------------------------------------
(* yolo_filter_boxes *)

ConfValues == {-1, 1, 2}        \* box_confidence entries
ClassAxis == {1, 2}             \* positions of the class axis
ProbRows == {<<1, 2>>, <<2, 1>>, <<1, 1>>}   \* box_class_probs rows, one per box
ProbValues == {1, 2}            \* the entries of those rows
ScoreThresholds == {2, 4}       \* threshold arguments
FilterBoxes == {<<0, 0, 2, 1>>, <<1, 0, 3, 1>>}   \* boxes entries

\* box_scores = box_confidence * box_class_probs, broadcast over the class axis
box_scores(box_confidence, box_class_probs) ==
    [p \in 1..Len(box_confidence) |->
        [c \in 1..Len(box_class_probs[p]) |-> box_confidence[p] * box_class_probs[p][c]]]

\* K.max(row, axis=-1) for one row
RowMax(row) == CHOOSE v \in {row[c] : c \in 1..Len(row)} :
                   \A c \in 1..Len(row) : row[c] <= v

RowArgmin(row) ==
    (CHOOSE c \in 1..Len(row) :
        /\ \A d \in 1..Len(row) : row[c] <= row[d]
        /\ \A d \in 1..(c - 1) : row[d] # row[c]) - 1

\* K.argmax(row, axis=-1) for one row: the first index of the maximum, 0-based
RowArgmax(row) ==
    (CHOOSE c \in 1..Len(row) :
        /\ row[c] = RowMax(row)
        /\ \A d \in 1..(c - 1) : row[d] # RowMax(row)) - 1

K_argmax(scores) == [p \in 1..Len(scores) |-> RowArgmax(scores[p])]
K_max(scores) == [p \in 1..Len(scores) |-> RowMax(scores[p])]

filtering_mask_strict(box_class_scores, threshold) ==
    [p \in 1..Len(box_class_scores) |-> box_class_scores[p] > threshold]

\* filtering_mask = (box_class_scores >= threshold)
filtering_mask(box_class_scores, threshold) ==
    [p \in 1..Len(box_class_scores) |-> box_class_scores[p] >= threshold]

\* tf.boolean_mask(tensor, mask): the rows whose mask entry is True, in order
RECURSIVE boolean_mask(_, _)
boolean_mask(tensor, mask) ==
    IF tensor = <<>> THEN <<>>
    ELSE (IF Head(mask) THEN <<Head(tensor)>> ELSE <<>>)
             \o boolean_mask(Tail(tensor), Tail(mask))

RECURSIVE Reverse(_)
Reverse(s) == IF s = <<>> THEN <<>> ELSE Append(Reverse(Tail(s)), Head(s))

yolo_filter_boxes_no_mask(box_confidence, boxes, box_class_probs, threshold) ==
    LET scores_ == box_scores(box_confidence, box_class_probs)
    IN  [scores  |-> K_max(scores_),
         boxes   |-> boxes,
         classes |-> K_argmax(scores_)]

yolo_filter_boxes_unmasked_boxes(box_confidence, boxes, box_class_probs, threshold) ==
    LET scores_ == box_scores(box_confidence, box_class_probs)
        box_classes == K_argmax(scores_)
        box_class_scores == K_max(scores_)
        mask == filtering_mask(box_class_scores, threshold)
    IN  [scores  |-> boolean_mask(box_class_scores, mask),
         boxes   |-> boxes,
         classes |-> boolean_mask(box_classes, mask)]

yolo_filter_boxes_reversed(box_confidence, boxes, box_class_probs, threshold) ==
    LET scores_ == box_scores(box_confidence, box_class_probs)
        box_classes == K_argmax(scores_)
        box_class_scores == K_max(scores_)
        mask == filtering_mask(box_class_scores, threshold)
    IN  [scores  |-> Reverse(boolean_mask(box_class_scores, mask)),
         boxes   |-> Reverse(boolean_mask(boxes, mask)),
         classes |-> Reverse(boolean_mask(box_classes, mask))]

yolo_filter_boxes(box_confidence, boxes, box_class_probs, threshold) ==
    LET scores_ == box_scores(box_confidence, box_class_probs)
        box_classes == K_argmax(scores_)
        box_class_scores == K_max(scores_)
        mask == filtering_mask(box_class_scores, threshold)
    IN  [scores  |-> boolean_mask(box_class_scores, mask),
         boxes   |-> boolean_mask(boxes, mask),
         classes |-> boolean_mask(box_classes, mask)]

\* The arguments of one call of yolo_filter_boxes
FilterArgs ==
    UNION {[box_confidence  : [1..n -> ConfValues],
            boxes           : [1..n -> FilterBoxes],
            box_class_probs : [1..n -> ProbRows],
            threshold       : ScoreThresholds] : n \in 0..MaxFilterBoxes}

InitFilter ==
    /\ pc = "call"
    /\ args \in FilterArgs
    /\ ret = None
    /\ calls = <<>>
    /\ session = <<>>

FilterBoxes_call ==
    /\ pc = "call"
    /\ ret' = yolo_filter_boxes(args.box_confidence, args.boxes,
                                args.box_class_probs, args.threshold)
    /\ pc' = "done"
    /\ UNCHANGED <<args, calls, session>>

NextFilter == FilterBoxes_call

SpecFilter == InitFilter /\ [][NextFilter]_vars

(* Claims about yolo_filter_boxes, checked under SpecFilter *)

\* Position p of the input passes the threshold: its largest class score,
\* stated without the code's max, is at least the threshold.
PassesThreshold(a, p) ==
    \E c \in ClassAxis : a.box_confidence[p] * a.box_class_probs[p][c] >= a.threshold

\* v is the largest class score of position p
IsMaxScoreAt(a, p, v) ==
    /\ \E c \in ClassAxis : a.box_confidence[p] * a.box_class_probs[p][c] = v
    /\ \A c \in ClassAxis : a.box_confidence[p] * a.box_class_probs[p][c] <= v

Survivors(a) == {p \in 1..Len(a.box_confidence) : PassesThreshold(a, p)}

\* The k-th smallest element of a set of integers
Nth(S, k) == CHOOSE p \in S : Cardinality({q \in S : q < p}) = k - 1

\* The detection (score, box) that position p of the input yields
InputDetection(a, p) ==
    [score |-> CHOOSE v \in {x * y : x \in ConfValues, y \in ProbValues} :
                   IsMaxScoreAt(a, p, v),
     box   |-> a.boxes[p]]

OutputDetection(r, k) == [score |-> r.scores[k], box |-> r.boxes[k]]

\* C1: yolo_filter_boxes retains a box iff its maximum over classes of
\* box_confidence * box_class_probs is >= threshold: the output holds as many
\* entries as there are such input positions, every output score is >= threshold
\* (a score equal to the threshold is kept), and every detection occurs in the
\* output exactly as often as it occurs among those positions.
C1_RetainsIffAtLeastThreshold ==
    pc = "done" =>
        /\ Len(ret.scores) = Cardinality(Survivors(args))
        /\ Len(ret.boxes) = Len(ret.scores)
        /\ \A k \in 1..Len(ret.scores) : ret.scores[k] >= args.threshold
        /\ \A p \in Survivors(args) :
              Cardinality({k \in 1..Len(ret.scores) :
                              OutputDetection(ret, k) = InputDetection(args, p)})
              = Cardinality({q \in Survivors(args) :
                                InputDetection(args, q) = InputDetection(args, p)})

\* A call in which one box scores exactly the threshold and is kept while
\* another scores below it and is dropped.
C1_Witness ==
    /\ pc = "done"
    /\ \E p, q \in 1..Len(args.box_confidence) :
          /\ IsMaxScoreAt(args, p, args.threshold)
          /\ ~PassesThreshold(args, q)
          /\ Len(ret.scores) = Cardinality(Survivors(args))
          /\ Len(ret.scores) < Len(args.box_confidence)
          /\ \E k \in 1..Len(ret.scores) : ret.scores[k] = args.threshold

\* C2: the three outputs of yolo_filter_boxes have the same length and are
\* index-aligned: at every output position the score, the box and the class
\* all belong to one input position that passed the mask.
C2_OutputsAligned ==
    pc = "done" =>
        /\ Len(ret.scores) = Len(ret.boxes)
        /\ Len(ret.boxes) = Len(ret.classes)
        /\ \A k \in 1..Len(ret.scores) :
              \E p \in Survivors(args) :
                  /\ IsMaxScoreAt(args, p, ret.scores[k])
                  /\ ret.boxes[k] = args.boxes[p]
                  /\ args.box_confidence[p] * args.box_class_probs[p][ret.classes[k] + 1]
                         = ret.scores[k]

\* A call that keeps two boxes differing in score, box and class and drops one.
C2_Witness ==
    /\ pc = "done"
    /\ Len(ret.scores) = 2
    /\ Len(args.box_confidence) = 3
    /\ ret.scores[1] # ret.scores[2]
    /\ ret.boxes[1] # ret.boxes[2]
    /\ ret.classes[1] # ret.classes[2]

\* C3: the survivors appear in the output in their input order: the k-th output
\* entry of each of the three outputs is the one of the k-th surviving input
\* position.
C3_OrderPreserved ==
    pc = "done" =>
        /\ Len(ret.scores) = Cardinality(Survivors(args))
        /\ Len(ret.boxes) = Cardinality(Survivors(args))
        /\ Len(ret.classes) = Cardinality(Survivors(args))
        /\ \A k \in 1..Cardinality(Survivors(args)) :
              LET p == Nth(Survivors(args), k)
              IN  /\ IsMaxScoreAt(args, p, ret.scores[k])
                  /\ ret.boxes[k] = args.boxes[p]
                  /\ args.box_confidence[p] * args.box_class_probs[p][ret.classes[k] + 1]
                         = ret.scores[k]

\* A call whose first and third boxes survive with different scores and boxes
\* while the second is dropped.
C3_Witness ==
    /\ pc = "done"
    /\ Len(args.box_confidence) = 3
    /\ Survivors(args) = {1, 3}
    /\ args.boxes[1] # args.boxes[3]
    /\ Len(ret.scores) = 2
    /\ ret.scores[1] # ret.scores[2]
    /\ ret.boxes = <<args.boxes[1], args.boxes[3]>>

\* The score of class index c (0-based) at input position p
ClassScore(p, c) == args.box_confidence[p] * args.box_class_probs[p][c + 1]

\* C18: for every box that yolo_filter_boxes retains, the returned score is the
\* maximum over the classes of box_confidence * box_class_probs of that box,
\* and the returned class is a class index at which that maximum is attained:
\* the returned score is the product at the returned class.
C18_ScoreIsClassMaximum ==
    pc = "done" =>
        \A k \in 1..Len(ret.classes) :
            LET p == Nth(Survivors(args), k)
                classes == 0..(Len(args.box_class_probs[p]) - 1)
            IN  /\ ret.classes[k] \in classes
                /\ ret.scores[k] = ClassScore(p, ret.classes[k])
                /\ \A c \in classes : ClassScore(p, c) <= ret.scores[k]

\* A call that retained a box whose maximum is at the second class and not at
\* the first, and a box whose maximum is at the first class and not at the
\* second.
C18_Witness ==
    /\ pc = "done"
    /\ \E k, j \in 1..Len(ret.classes) :
          /\ ret.classes[k] = 1
          /\ ClassScore(Nth(Survivors(args), k), 0) < ret.scores[k]
          /\ ret.classes[j] = 0
          /\ ClassScore(Nth(Survivors(args), j), 1) < ret.scores[j]

----------------------------------------------------------------------------
(* iou *)

\* Corner-form boxes (x1, y1, x2, y2) with x1 <= x2 and y1 <= y2
IouBoxes ==
    {b \in (0..MaxCoord) \X (0..MaxCoord) \X (0..MaxCoord) \X (0..MaxCoord) :
        b[1] <= b[3] /\ b[2] <= b[4]}

inter_area_first_box(box1, box2) ==
    LET xi1 == box1[1]
        yi1 == Max2(box1[2], box2[2])
        xi2 == Min2(box1[3], box2[3])
        yi2 == Min2(box1[4], box2[4])
    IN  (yi2 - yi1) * (xi2 - xi1)

inter_area_min_max_swapped(box1, box2) ==
    LET xi1 == Min2(box1[1], box2[1])
        yi1 == Min2(box1[2], box2[2])
        xi2 == Max2(box1[3], box2[3])
        yi2 == Max2(box1[4], box2[4])
    IN  (yi2 - yi1) * (xi2 - xi1)

inter_area_clamped(box1, box2) ==
    LET xi1 == Max2(box1[1], box2[1])
        yi1 == Max2(box1[2], box2[2])
        xi2 == Min2(box1[3], box2[3])
        yi2 == Min2(box1[4], box2[4])
    IN  Max2(yi2 - yi1, 0) * Max2(xi2 - xi1, 0)

\* xi1, yi1, xi2, yi2 and inter_area; box[0..3] of the code are box[1..4] here
inter_area(box1, box2) ==
    LET xi1 == Max2(box1[1], box2[1])
        yi1 == Max2(box1[2], box2[2])
        xi2 == Min2(box1[3], box2[3])
        yi2 == Min2(box1[4], box2[4])
    IN  (yi2 - yi1) * (xi2 - xi1)

\* box1_area and box2_area
box_area(box) == (box[3] - box[1]) * (box[4] - box[2])

union_area_box1_twice(box1, box2) ==
    box_area(box1) + box_area(box1) - inter_area(box1, box2)

union_area_no_subtract(box1, box2) == box_area(box1) + box_area(box2)

\* union_area = box1_area + box2_area - inter_area
union_area(box1, box2) == box_area(box1) + box_area(box2) - inter_area(box1, box2)

\* A fraction that is no number: the value of a quotient that was not computed
Undefined == <<0, 0>>

\* iou = inter_area/union_area: the locals, the exception raised (the division
\* of integers by zero raises ZeroDivisionError) and the returned quotient
iou(box1, box2) ==
    [inter_area |-> inter_area(box1, box2),
     union_area |-> union_area(box1, box2),
     raised     |-> IF union_area(box1, box2) = 0 THEN "ZeroDivisionError" ELSE None,
     iou        |-> IF union_area(box1, box2) = 0 THEN Undefined
                    ELSE Quot(inter_area(box1, box2), union_area(box1, box2))]

InitIou ==
    /\ pc = "call"
    /\ args \in [box1 : IouBoxes, box2 : IouBoxes]
    /\ ret = None
    /\ calls = <<>>
    /\ session = <<>>

Iou_call ==
    /\ pc = "call"
    /\ ret' = iou(args.box1, args.box2)
    /\ pc' = IF ret'.raised = None THEN "done" ELSE "raised"
    /\ UNCHANGED <<args, calls, session>>

NextIou == Iou_call

SpecIou == InitIou /\ [][NextIou]_vars

(* Claims about iou, checked under SpecIou *)

NonDegenerate(b) == b[1] < b[3] /\ b[2] < b[4]

\* The interiors of a and b are disjoint
Disjoint(a, b) == a[3] <= b[1] \/ b[3] <= a[1] \/ a[4] <= b[2] \/ b[4] <= a[2]

\* C4: for every non-degenerate corner-form box b, iou(b, b) returns exactly 1.
C4_IouSelfIsOne ==
    (pc # "call" /\ args.box1 = args.box2 /\ NonDegenerate(args.box1)) =>
        (pc = "done" /\ ret.iou = <<1, 1>>)

\* iou(b, b) has returned for a non-degenerate box b of area larger than 1.
C4_Witness ==
    /\ pc = "done"
    /\ args.box1 = args.box2
    /\ NonDegenerate(args.box1)
    /\ ret.inter_area > 1
    /\ ret.iou = <<1, 1>>

\* C5: iou is symmetric: whenever iou(a, b) returns, iou(b, a) returns the same
\* value, also for boxes that do not overlap; and when iou(a, b) raises, so
\* does iou(b, a).
C5_IouSymmetric ==
    pc # "call" => ret = iou(args.box2, args.box1)

\* iou has returned a non-zero value for two different non-degenerate boxes
\* that do not overlap.
C5_Witness ==
    /\ pc = "done"
    /\ args.box1 # args.box2
    /\ NonDegenerate(args.box1)
    /\ NonDegenerate(args.box2)
    /\ Disjoint(args.box1, args.box2)
    /\ ret.iou[1] # 0

\* C6: iou((2,1,4,3), (1,2,3,4)) returns 1/7, from an intersection area of 1
\* and a union area of 4 + 4 - 1 = 7.
C6_IouScenario ==
    (pc # "call" /\ args = [box1 |-> <<2, 1, 4, 3>>, box2 |-> <<1, 2, 3, 4>>]) =>
        /\ pc = "done"
        /\ ret.inter_area = 1
        /\ ret.union_area = 7
        /\ ret.iou = <<1, 7>>

\* The call of the scenario has returned.
C6_Witness ==
    /\ pc = "done"
    /\ args.box1 = <<2, 1, 4, 3>>
    /\ args.box2 = <<1, 2, 3, 4>>
    /\ ret.iou = <<1, 7>>

\* C19: for any two corner-form boxes (here: of positive width and height)
\* whose interiors are disjoint, the intersection area that iou computes is
\* zero or negative, never positive, also when the boxes are separated on both
\* the x axis and the y axis.
C19_DisjointInterAreaNotPositive ==
    (pc # "call" /\ NonDegenerate(args.box1) /\ NonDegenerate(args.box2)
         /\ Disjoint(args.box1, args.box2)) =>
        ret.inter_area <= 0

\* a and b are apart on the x axis (a gap lies between them)
ApartOnX(a, b) == a[3] < b[1] \/ b[3] < a[1]
ApartOnY(a, b) == a[4] < b[2] \/ b[4] < a[2]

\* The extents of a and b on the x axis share more than a point
OverlapOnX(a, b) == Max2(a[1], b[1]) < Min2(a[3], b[3])
OverlapOnY(a, b) == Max2(a[2], b[2]) < Min2(a[4], b[4])

\* a and b are separated on exactly one axis
ApartOnOneAxis(a, b) ==
    \/ ApartOnX(a, b) /\ OverlapOnY(a, b)
    \/ ApartOnY(a, b) /\ OverlapOnX(a, b)

\* C20: iou does not clamp the extents of the intersection at zero.  For all
\* non-degenerate boxes that a gap separates on exactly one axis (so there are
\* such boxes), iou computes a negative intersection area and returns a
\* negative value, not 0.
C20_NegativeIouWhenApartOnOneAxis ==
    (pc # "call" /\ NonDegenerate(args.box1) /\ NonDegenerate(args.box2)
         /\ ApartOnOneAxis(args.box1, args.box2)) =>
        /\ pc = "done"
        /\ ret.inter_area < 0
        /\ ret.iou[1] < 0
        /\ ret.iou[2] > 0

\* iou has returned -1/3 for the disjoint boxes (0,0,1,2) and (2,0,3,2), which
\* a gap separates on the x axis only.
C20_Witness ==
    /\ pc = "done"
    /\ args.box1 = <<0, 0, 1, 2>>
    /\ args.box2 = <<2, 0, 3, 2>>
    /\ Disjoint(args.box1, args.box2)
    /\ ApartOnOneAxis(args.box1, args.box2)
    /\ ret.inter_area = -2
    /\ ret.iou = <<-1, 3>>

\* C21: for every pair of non-degenerate corner-form boxes whose intersection
\* has positive width and positive height, iou returns a value r with
\* 0 < r <= 1, and r = 1 only when the two boxes are identical.
C21_IouOfOverlappingBoxes ==
    (pc # "call" /\ NonDegenerate(args.box1) /\ NonDegenerate(args.box2)
         /\ OverlapOnX(args.box1, args.box2) /\ OverlapOnY(args.box1, args.box2)) =>
        /\ pc = "done"
        /\ 0 < ret.iou[1]
        /\ ret.iou[1] <= ret.iou[2]
        /\ ret.iou = <<1, 1>> => args.box1 = args.box2

\* iou has returned a value strictly between 0 and 1 for a box that lies
\* inside a larger one.
C21_Witness ==
    /\ pc = "done"
    /\ NonDegenerate(args.box1)
    /\ args.box1 # args.box2
    /\ args.box2[1] <= args.box1[1] /\ args.box1[3] <= args.box2[3]
    /\ args.box2[2] <= args.box1[2] /\ args.box1[4] <= args.box2[4]
    /\ ret.inter_area = box_area(args.box1)
    /\ 0 < ret.iou[1]
    /\ ret.iou[1] < ret.iou[2]

\* C27: iou never divides by zero on non-degenerate input: for every pair of
\* corner-form boxes with x1 < x2 and y1 < y2, overlapping or disjoint, the
\* call returns and union_area = box1_area + box2_area - inter_area is
\* strictly positive.
C27_UnionAreaPositive ==
    (pc # "call" /\ NonDegenerate(args.box1) /\ NonDegenerate(args.box2)) =>
        /\ pc = "done"
        /\ ret.union_area > 0

----------------------------------------------------------------------------
(* yolo_non_max_suppression *)

\* Positions of a tensor are 1-based here and 0-based in the code.

NmsScores == {1, 2, 3}              \* scores entries
\* boxes entries: two corners of a box.  <<0,0,2,1>> overlaps <<1,0,3,1>> with
\* IoU 1/3 and <<0,0,1,1>> with IoU 1/2; <<4,3,3,2>> gives its corners in the
\* other order and overlaps none of them.
NmsBoxes == {<<0, 0, 2, 1>>, <<1, 0, 3, 1>>, <<0, 0, 1, 1>>, <<4, 3, 3, 2>>}
MaxBoxesArgs == {0, 2, 10}           \* max_boxes arguments; 10 is the default
IouThresholds == {<<1, 3>>, <<1, 2>>} \* iou_threshold arguments; 1/2 is the default
DefaultIouThreshold == <<1, 2>>

\* classes arguments for n boxes: every box a class of its own
ClassesArgs(n) == {[i \in 1..n |-> i - 1]}

DescendingOrders_unsorted(scores) == Permutations(1..Len(scores))

\* The orders in which tf.image.non_max_suppression can take the candidates: by
\* descending score, boxes of equal score in any order
DescendingOrders(scores) ==
    {o \in Permutations(1..Len(scores)) :
        \A t \in 1..(Len(scores) - 1) : scores[o[t]] >= scores[o[t + 1]]}

\* The overlap test of tf.image.non_max_suppression: the corners are put in
\* order, a box without area overlaps nothing, the intersection extents are
\* clamped at 0, and the test is iou > iou_threshold.
tf_iou_greater(bi, bj, iou_threshold) ==
    LET ymin_i == Min2(bi[1], bi[3])
        xmin_i == Min2(bi[2], bi[4])
        ymax_i == Max2(bi[1], bi[3])
        xmax_i == Max2(bi[2], bi[4])
        ymin_j == Min2(bj[1], bj[3])
        xmin_j == Min2(bj[2], bj[4])
        ymax_j == Max2(bj[1], bj[3])
        xmax_j == Max2(bj[2], bj[4])
        area_i == (ymax_i - ymin_i) * (xmax_i - xmin_i)
        area_j == (ymax_j - ymin_j) * (xmax_j - xmin_j)
        intersection_area ==
            Max2(Min2(ymax_i, ymax_j) - Max2(ymin_i, ymin_j), 0)
                * Max2(Min2(xmax_i, xmax_j) - Max2(xmin_i, xmin_j), 0)
    IN  IF area_i <= 0 \/ area_j <= 0 THEN FALSE
        ELSE intersection_area * iou_threshold[2]
                 > iou_threshold[1] * (area_i + area_j - intersection_area)

\* The value that the overlap test of tf.image.non_max_suppression compares
\* with iou_threshold: 0 for a box without area, else the clamped intersection
\* over the union
tf_iou(bi, bj) ==
    LET ymin_i == Min2(bi[1], bi[3])
        xmin_i == Min2(bi[2], bi[4])
        ymax_i == Max2(bi[1], bi[3])
        xmax_i == Max2(bi[2], bi[4])
        ymin_j == Min2(bj[1], bj[3])
        xmin_j == Min2(bj[2], bj[4])
        ymax_j == Max2(bj[1], bj[3])
        xmax_j == Max2(bj[2], bj[4])
        area_i == (ymax_i - ymin_i) * (xmax_i - xmin_i)
        area_j == (ymax_j - ymin_j) * (xmax_j - xmin_j)
        intersection_area ==
            Max2(Min2(ymax_i, ymax_j) - Max2(ymin_i, ymin_j), 0)
                * Max2(Min2(xmax_i, xmax_j) - Max2(xmin_i, xmin_j), 0)
    IN  IF area_i <= 0 \/ area_j <= 0 THEN <<0, 1>>
        ELSE Quot(intersection_area, area_i + area_j - intersection_area)

\* The greedy loop of tf.image.non_max_suppression over the candidates left
RECURSIVE nms_select(_, _, _, _, _)
nms_select(boxes, candidates, selected, output_size, iou_threshold) ==
    IF candidates = <<>> \/ Len(selected) >= output_size THEN selected
    ELSE LET next_candidate == Head(candidates)
             should_select ==
                 \A j \in 1..Len(selected) :
                     ~tf_iou_greater(boxes[next_candidate], boxes[selected[j]],
                                     iou_threshold)
         IN  nms_select(boxes, Tail(candidates),
                        IF should_select THEN Append(selected, next_candidate)
                        ELSE selected,
                        output_size, iou_threshold)

\* tf.image.non_max_suppression(boxes, scores, max_output_size, iou_threshold)
\* with the candidates taken in the given order
non_max_suppression(boxes, scores, max_output_size, iou_threshold, order) ==
    nms_select(boxes, order, <<>>, Min2(max_output_size, Len(scores)), iou_threshold)

\* K.gather(reference, indices)
K_gather(reference, indices) ==
    [k \in 1..Len(indices) |-> reference[indices[k]]]

yolo_non_max_suppression_boxes_by_position(scores, boxes, classes, max_boxes, iou_threshold, order) ==
    LET nms_indices == non_max_suppression(boxes, scores, max_boxes, iou_threshold, order)
    IN  [nms_indices |-> nms_indices,
         scores      |-> K_gather(scores, nms_indices),
         boxes       |-> K_gather(boxes, [k \in 1..Len(nms_indices) |-> k]),
         classes     |-> K_gather(classes, nms_indices)]

yolo_non_max_suppression_no_max(scores, boxes, classes, max_boxes, iou_threshold, order) ==
    LET nms_indices == non_max_suppression(boxes, scores, Len(scores), iou_threshold, order)
    IN  [nms_indices |-> nms_indices,
         scores      |-> K_gather(scores, nms_indices),
         boxes       |-> K_gather(boxes, nms_indices),
         classes     |-> K_gather(classes, nms_indices)]

yolo_non_max_suppression_default_iou(scores, boxes, classes, max_boxes, iou_threshold, order) ==
    LET nms_indices == non_max_suppression(boxes, scores, max_boxes,
                                           DefaultIouThreshold, order)
    IN  [nms_indices |-> nms_indices,
         scores      |-> K_gather(scores, nms_indices),
         boxes       |-> K_gather(boxes, nms_indices),
         classes     |-> K_gather(classes, nms_indices)]

yolo_non_max_suppression_first_max(scores, boxes, classes, max_boxes, iou_threshold, order) ==
    LET nms_indices == [k \in 1..Min2(max_boxes, Len(scores)) |-> order[k]]
    IN  [nms_indices |-> nms_indices,
         scores      |-> K_gather(scores, nms_indices),
         boxes       |-> K_gather(boxes, nms_indices),
         classes     |-> K_gather(classes, nms_indices)]

\* yolo_non_max_suppression: the local nms_indices and the three returned
\* tensors.  order is the order in which the library takes boxes of equal score.
yolo_non_max_suppression(scores, boxes, classes, max_boxes, iou_threshold, order) ==
    LET nms_indices == non_max_suppression(boxes, scores, max_boxes, iou_threshold, order)
    IN  [nms_indices |-> nms_indices,
         scores      |-> K_gather(scores, nms_indices),
         boxes       |-> K_gather(boxes, nms_indices),
         classes     |-> K_gather(classes, nms_indices)]

\* The arguments of one call of yolo_non_max_suppression
NmsArgs ==
    UNION {[scores        : [1..n -> NmsScores],
            boxes         : [1..n -> NmsBoxes],
            classes       : ClassesArgs(n),
            max_boxes     : MaxBoxesArgs,
            iou_threshold : IouThresholds] : n \in 0..MaxNmsBoxes}

InitNms ==
    /\ pc = "call"
    /\ args \in NmsArgs
    /\ ret = None
    /\ calls = <<>>
    /\ session = <<>>

\* The call creates the variable max_boxes_tensor and initialises it in the
\* session before it selects.
Nms_call ==
    /\ pc = "call"
    /\ session' = Append(session, args.max_boxes)
    /\ \E order \in DescendingOrders(args.scores) :
          ret' = yolo_non_max_suppression(args.scores, args.boxes, args.classes,
                                          args.max_boxes, args.iou_threshold, order)
    /\ pc' = "done"
    /\ UNCHANGED <<args, calls>>

NextNms == Nms_call

SpecNms == InitNms /\ [][NextNms]_vars

(* Claims about yolo_non_max_suppression, checked under SpecNms *)

\* The unit cells that the box with the two corners b covers
Cells(b) ==
    (Min2(b[1], b[3])..(Max2(b[1], b[3]) - 1))
        \X (Min2(b[2], b[4])..(Max2(b[2], b[4]) - 1))

\* The intersection over union of boxes a and b, counted in unit cells, exceeds
\* the fraction t
IoUExceeds(a, b, t) ==
    LET i == Cardinality(Cells(a) \cap Cells(b))
        u == Cardinality(Cells(a) \cup Cells(b))
    IN  u > 0 /\ i * t[2] > t[1] * u

\* The intersection over union of boxes a and b equals the fraction t
IoUEquals(a, b, t) ==
    LET i == Cardinality(Cells(a) \cap Cells(b))
        u == Cardinality(Cells(a) \cup Cells(b))
    IN  u > 0 /\ i * t[2] = t[1] * u

\* C7: yolo_non_max_suppression returns at most max_boxes boxes, and its three
\* outputs have that same length.
C7_AtMostMaxBoxes ==
    pc = "done" =>
        /\ Len(ret.scores) <= args.max_boxes
        /\ Len(ret.boxes) = Len(ret.scores)
        /\ Len(ret.classes) = Len(ret.scores)

\* A call that stopped at max_boxes although a further box overlapping none of
\* the returned ones was left.
C7_Witness ==
    /\ pc = "done"
    /\ args.max_boxes >= 1
    /\ Len(ret.scores) = args.max_boxes
    /\ \E i \in 1..Len(args.boxes) :
          /\ \A k \in 1..Len(ret.boxes) : args.boxes[i] # ret.boxes[k]
          /\ \A k \in 1..Len(ret.boxes) :
                ~IoUExceeds(args.boxes[i], ret.boxes[k], args.iou_threshold)

\* C8: no two retained boxes overlap with an intersection over union that
\* exceeds iou_threshold.
C8_NoRetainedPairOverlaps ==
    pc = "done" =>
        \A j, k \in 1..Len(ret.boxes) :
            j # k => ~IoUExceeds(ret.boxes[j], ret.boxes[k], args.iou_threshold)

\* A call that kept two boxes and dropped a third one, which overlaps the
\* first kept box beyond the threshold and the second kept box not at all.
C8_Witness ==
    /\ pc = "done"
    /\ Len(args.boxes) = 3
    /\ Len(ret.boxes) = 2
    /\ args.max_boxes > 2
    /\ \E i \in 1..3 :
          /\ \A k \in 1..2 : ret.nms_indices[k] # i
          /\ IoUExceeds(args.boxes[i], ret.boxes[1], args.iou_threshold)
          /\ ~IoUExceeds(args.boxes[i], ret.boxes[2], <<0, 1>>)

\* The positions kept by the call
Kept == {ret.nms_indices[k] : k \in 1..Len(ret.nms_indices)}

\* Taking the boxes in order o, each box is kept exactly when fewer than
\* max_boxes boxes were kept before it and its IoU with every box kept before
\* it does not exceed iou_threshold; and the output lists the kept boxes in
\* that order.
GreedyAlong(o) ==
    /\ \A t \in 1..Len(args.scores) :
          LET before == {o[u] : u \in 1..(t - 1)} \cap Kept
          IN  (o[t] \in Kept) <=>
                  /\ Cardinality(before) < args.max_boxes
                  /\ \A k \in before :
                        ~IoUExceeds(args.boxes[k], args.boxes[o[t]], args.iou_threshold)
    /\ \A j, k \in 1..Len(ret.nms_indices) :
          j < k => \E t, u \in 1..Len(args.scores) :
                      t < u /\ o[t] = ret.nms_indices[j] /\ o[u] = ret.nms_indices[k]
    /\ ret.scores = [k \in 1..Len(ret.nms_indices) |-> args.scores[ret.nms_indices[k]]]
    /\ ret.boxes = [k \in 1..Len(ret.nms_indices) |-> args.boxes[ret.nms_indices[k]]]

\* The highest score of the input is the first score returned
HighestScoreRetained ==
    (Len(args.scores) > 0 /\ args.max_boxes >= 1) =>
        /\ Len(ret.scores) >= 1
        /\ \A q \in 1..Len(args.scores) : args.scores[q] <= ret.scores[1]

\* Box i was reached after max_boxes boxes were kept
ReachedAfterMaxBoxes(i) ==
    /\ Cardinality(Kept) = args.max_boxes
    /\ \A k \in Kept : args.scores[k] >= args.scores[i]

\* C9 as stated: greedy selection by descending score; the highest-scoring box
\* is retained; every discarded box overlaps a kept box of higher score beyond
\* the threshold or was reached after max_boxes boxes were kept.
C9_DiscardedOverlapsHigherScoring ==
    pc = "done" =>
        /\ \E o \in DescendingOrders(args.scores) : GreedyAlong(o)
        /\ HighestScoreRetained
        /\ \A i \in (1..Len(args.scores)) \ Kept :
              \/ \E k \in Kept :
                    /\ args.scores[k] > args.scores[i]
                    /\ IoUExceeds(args.boxes[k], args.boxes[i], args.iou_threshold)
              \/ ReachedAfterMaxBoxes(i)

\* C9, amended for boxes of equal score: greedy selection by descending score
\* (boxes of equal score in some order); a box is kept exactly when fewer than
\* max_boxes boxes were kept before it and its IoU with every box kept before
\* it does not exceed iou_threshold (an IoU equal to the threshold keeps it); a
\* box of the highest score is retained; every discarded box overlaps a kept
\* box of the same or a higher score beyond the threshold or was reached after
\* max_boxes boxes were kept.
C9_GreedyByDescendingScore ==
    pc = "done" =>
        /\ \E o \in DescendingOrders(args.scores) : GreedyAlong(o)
        /\ HighestScoreRetained
        /\ \A i \in (1..Len(args.scores)) \ Kept :
              \/ \E k \in Kept :
                    /\ args.scores[k] >= args.scores[i]
                    /\ IoUExceeds(args.boxes[k], args.boxes[i], args.iou_threshold)
              \/ ReachedAfterMaxBoxes(i)

\* A call that kept a box whose IoU with the box kept before it equals the
\* threshold and discarded a third box for its overlap with a kept box.
C9_Witness ==
    /\ pc = "done"
    /\ Len(args.scores) = 3
    /\ Len(ret.boxes) = 2
    /\ IoUEquals(ret.boxes[1], ret.boxes[2], args.iou_threshold)
    /\ ret.scores[1] > ret.scores[2]
    /\ \E i \in (1..3) \ Kept :
          \E k \in Kept : IoUExceeds(args.boxes[k], args.boxes[i], args.iou_threshold)

\* The input index of output position k: the classes argument tags every
\* input position with its own 0-based index
InputIndexOf(k) == ret.classes[k] + 1

\* C22: the three outputs of yolo_non_max_suppression are gathered with one
\* index list that holds no index twice: every output triple (scores[k],
\* boxes[k], classes[k]) is the input triple of one input index, no input
\* index occurs at two output positions, and the output is no longer than
\* the input.
C22_OneIndexListNoDuplicates ==
    pc = "done" =>
        /\ Len(ret.scores) = Len(ret.boxes)
        /\ Len(ret.boxes) = Len(ret.classes)
        /\ Len(ret.scores) <= Len(args.scores)
        /\ \A k \in 1..Len(ret.scores) :
              /\ InputIndexOf(k) \in 1..Len(args.scores)
              /\ ret.scores[k] = args.scores[InputIndexOf(k)]
              /\ ret.boxes[k] = args.boxes[InputIndexOf(k)]
              /\ ret.classes[k] = args.classes[InputIndexOf(k)]
        /\ \A j, k \in 1..Len(ret.scores) :
              j # k => InputIndexOf(j) # InputIndexOf(k)

\* A call that returned two of three boxes, the second output taken from an
\* input position before that of the first, with different boxes and scores.
C22_Witness ==
    /\ pc = "done"
    /\ Len(args.scores) = 3
    /\ Len(ret.scores) = 2
    /\ InputIndexOf(2) < InputIndexOf(1)
    /\ ret.boxes[1] # ret.boxes[2]
    /\ ret.scores[1] # ret.scores[2]
    /\ ret.boxes[1] # args.boxes[1]

\* C23: the scores that yolo_non_max_suppression returns are in non-increasing
\* order: scores[j] >= scores[k] for output positions j < k, whatever the
\* order of the input.
C23_ScoresNonIncreasing ==
    pc = "done" =>
        \A j, k \in 1..Len(ret.scores) : j < k => ret.scores[j] >= ret.scores[k]

\* A call whose input scores were in increasing order and that returned all
\* three boxes, in decreasing order of score.
C23_Witness ==
    /\ pc = "done"
    /\ Len(args.scores) = 3
    /\ args.scores[1] < args.scores[2]
    /\ args.scores[2] < args.scores[3]
    /\ Len(ret.scores) = 3
    /\ ret.scores[1] > ret.scores[2]
    /\ ret.scores[2] > ret.scores[3]

\* C25 (checked under SpecIou, on the pair of boxes given to iou; boxes of
\* positive width and height): the overlap measure that non-max suppression
\* compares with iou_threshold is the iou of the notebook: for every pair of
\* boxes iou returns, and returns the value that the suppression computes for
\* the pair, also when the boxes do not overlap.
C25_NmsMeasureIsIou ==
    (pc # "call" /\ NonDegenerate(args.box1) /\ NonDegenerate(args.box2)) =>
        /\ pc = "done"
        /\ ret.iou = tf_iou(args.box1, args.box2)

----------------------------------------------------------------------------
(* yolo_eval *)

EvalConfValues == {1, 2}                  \* box_confidence entries
EvalProbRows == {<<1, 2>>, <<2, 1>>}      \* box_class_probs rows
EvalCentres == {<<1, 1>>, <<2, 1>>}       \* box_xy entries
EvalSizes == {<<2, 2>>}                   \* box_wh entries
ImageShapes == {<<2, 3>>, <<3, 2>>}       \* image_shape arguments (height, width)
EvalScoreThresholds == {2, 4}             \* score_threshold arguments
EvalMaxBoxesArgs == {1, 10}               \* max_boxes arguments

\* yolo_boxes_to_corners(box_xy, box_wh): (x, y, w, h) to the corners
\* (x1, y1, x2, y2); the sizes of the model are even
yolo_boxes_to_corners(box_xy, box_wh) ==
    [p \in 1..Len(box_xy) |->
        <<box_xy[p][1] - (box_wh[p][1] \div 2), box_xy[p][2] - (box_wh[p][2] \div 2),
          box_xy[p][1] + (box_wh[p][1] \div 2), box_xy[p][2] + (box_wh[p][2] \div 2)>>]

\* scale_boxes(boxes, image_shape): the boxes rescaled to the image, x by its
\* width and y by its height
scale_boxes(boxes, image_shape) ==
    [p \in 1..Len(boxes) |->
        <<boxes[p][1] * image_shape[2], boxes[p][2] * image_shape[1],
          boxes[p][3] * image_shape[2], boxes[p][4] * image_shape[1]>>]

next_statement_scale_first(l) ==
    CASE l = "corners" -> "scale"
      [] l = "scale"   -> "filter"
      [] l = "filter"  -> "nms"
      [] l = "nms"     -> "done"

\* The statement of yolo_eval that follows statement l
next_statement(l) ==
    CASE l = "corners" -> "filter"
      [] l = "filter"  -> "scale"
      [] l = "scale"   -> "nms"
      [] l = "nms"     -> "done"

\* The arguments of one call of yolo_eval; yolo_outputs is the tuple
\* (box_confidence, box_xy, box_wh, box_class_probs)
EvalArgs ==
    UNION {[box_confidence  : [1..n -> EvalConfValues],
            box_xy          : [1..n -> EvalCentres],
            box_wh          : [1..n -> EvalSizes],
            box_class_probs : [1..n -> EvalProbRows],
            image_shape     : ImageShapes,
            max_boxes       : EvalMaxBoxesArgs,
            score_threshold : EvalScoreThresholds,
            iou_threshold   : IouThresholds] : n \in 0..MaxEvalBoxes}

InitEval ==
    /\ pc = "corners"
    /\ args \in EvalArgs
    /\ ret = [scores |-> <<>>, boxes |-> <<>>, classes |-> <<>>]
    /\ calls = <<>>
    /\ session = <<>>

\* boxes = yolo_boxes_to_corners(box_xy, box_wh)
Eval_corners ==
    /\ pc = "corners"
    /\ calls' = Append(calls, [fn |-> "yolo_boxes_to_corners",
                               boxes |-> <<args.box_xy, args.box_wh>>])
    /\ ret' = [ret EXCEPT !.boxes = yolo_boxes_to_corners(args.box_xy, args.box_wh)]
    /\ pc' = next_statement(pc)
    /\ UNCHANGED <<args, session>>

\* scores, boxes, classes = yolo_filter_boxes(box_confidence, boxes,
\*                                            box_class_probs, score_threshold)
Eval_filter ==
    /\ pc = "filter"
    /\ calls' = Append(calls, [fn |-> "yolo_filter_boxes", boxes |-> ret.boxes])
    /\ ret' = yolo_filter_boxes(args.box_confidence, ret.boxes,
                                args.box_class_probs, args.score_threshold)
    /\ pc' = next_statement(pc)
    /\ UNCHANGED <<args, session>>

\* boxes = scale_boxes(boxes, image_shape)
Eval_scale ==
    /\ pc = "scale"
    /\ calls' = Append(calls, [fn |-> "scale_boxes", boxes |-> ret.boxes])
    /\ ret' = [ret EXCEPT !.boxes = scale_boxes(ret.boxes, args.image_shape)]
    /\ pc' = next_statement(pc)
    /\ UNCHANGED <<args, session>>

\* scores, boxes, classes = yolo_non_max_suppression(scores, boxes, classes,
\*                                                   max_boxes, iou_threshold)
Eval_nms ==
    /\ pc = "nms"
    /\ calls' = Append(calls, [fn |-> "yolo_non_max_suppression", boxes |-> ret.boxes])
    /\ session' = Append(session, args.max_boxes)
    /\ \E order \in DescendingOrders(ret.scores) :
          LET r == yolo_non_max_suppression(ret.scores, ret.boxes, ret.classes,
                                            args.max_boxes, args.iou_threshold, order)
          IN  ret' = [scores |-> r.scores, boxes |-> r.boxes, classes |-> r.classes]
    /\ pc' = next_statement(pc)
    /\ UNCHANGED args

NextEval == Eval_corners \/ Eval_filter \/ Eval_scale \/ Eval_nms

SpecEval == InitEval /\ [][NextEval]_vars

(* Claims about yolo_eval, checked under SpecEval *)

\* The four stages in the order in which the claim has them
StageOrder ==
    <<"yolo_boxes_to_corners", "yolo_filter_boxes", "scale_boxes",
      "yolo_non_max_suppression">>

\* The corners of input position p, from the definition of a box by its centre
\* and its size
Corners(p) ==
    LET x == args.box_xy[p][1]
        y == args.box_xy[p][2]
        w == args.box_wh[p][1]
        h == args.box_wh[p][2]
    IN  <<(2 * x - w) \div 2, (2 * y - h) \div 2, (2 * x + w) \div 2, (2 * y + h) \div 2>>

\* Box b rescaled to the image
Rescaled(b) ==
    <<b[1] * args.image_shape[2], b[2] * args.image_shape[1],
      b[3] * args.image_shape[2], b[4] * args.image_shape[1]>>

\* The input positions whose largest class score is at least score_threshold
PassScoreFilter ==
    {p \in 1..Len(args.box_confidence) :
        \E c \in ClassAxis :
            args.box_confidence[p] * args.box_class_probs[p][c] >= args.score_threshold}

\* C10: yolo_eval runs corner conversion, score filter, rescaling and non-max
\* suppression in this order on every call: the stages run so far are always
\* the first ones of that order; the filter receives the converted boxes of
\* all input positions; rescaling receives only the boxes that passed the
\* score filter; and non-max suppression receives those boxes rescaled.
C10_StagesInOrder ==
    /\ Len(calls) <= 4
    /\ \A k \in 1..Len(calls) : calls[k].fn = StageOrder[k]
    /\ pc = "done" => Len(calls) = 4
    /\ Len(calls) >= 2 =>
          calls[2].boxes = [p \in 1..Len(args.box_xy) |-> Corners(p)]
    /\ Len(calls) >= 3 =>
          calls[3].boxes = [k \in 1..Cardinality(PassScoreFilter) |->
                               Corners(Nth(PassScoreFilter, k))]
    /\ Len(calls) >= 4 =>
          calls[4].boxes = [k \in 1..Len(calls[3].boxes) |-> Rescaled(calls[3].boxes[k])]

\* A call that has returned after the score filter removed one of two boxes,
\* so that rescaling and non-max suppression received a single box.
C10_Witness ==
    /\ pc = "done"
    /\ Len(args.box_xy) = 2
    /\ Len(calls) = 4
    /\ Len(calls[2].boxes) = 2
    /\ Len(calls[3].boxes) = 1
    /\ Len(calls[4].boxes) = 1
    /\ calls[4].boxes # calls[3].boxes
    /\ Len(ret.boxes) = 1

\* C24: for every input to yolo_eval, every returned detection has a score of
\* at least score_threshold, the number of returned detections is at most
\* max_boxes and at most the number of boxes that passed the score filter, and
\* the three returned sequences have the same length.
C24_EvalOutputBounds ==
    pc = "done" =>
        /\ \A k \in 1..Len(ret.scores) : ret.scores[k] >= args.score_threshold
        /\ Len(ret.scores) <= args.max_boxes
        /\ Len(ret.scores) <= Cardinality(PassScoreFilter)
        /\ Len(ret.scores) = Len(ret.boxes)
        /\ Len(ret.boxes) = Len(ret.classes)

\* A call in which two boxes passed the score filter, one of them with a score
\* equal to score_threshold, and max_boxes = 1 left a single detection.
C24_Witness ==
    /\ pc = "done"
    /\ Cardinality(PassScoreFilter) = 2
    /\ args.max_boxes = 1
    /\ Len(ret.scores) = 1
    /\ \E p \in PassScoreFilter :
          \A c \in ClassAxis :
              args.box_confidence[p] * args.box_class_probs[p][c] <= args.score_threshold

----------------------------------------------------------------------------
(* yolo_eval called repeatedly in one session *)

\* The order in which the non-max-suppression kernel of the session takes boxes
\* of equal score.  The kernel is deterministic: the order is a function of the
\* scores it is given, the same throughout the life of the session.
KernelTies == {"lowest index first", "highest index first"}

TieOrder(scores, ties) ==
    CHOOSE o \in DescendingOrders(scores) :
        \A t \in 1..(Len(scores) - 1) :
            scores[o[t]] = scores[o[t + 1]] =>
                IF ties = "lowest index first" THEN o[t] < o[t + 1] ELSE o[t] > o[t + 1]

yolo_eval_stale_max_boxes(a, sess) ==
    LET corners == yolo_boxes_to_corners(a.box_xy, a.box_wh)
        f == yolo_filter_boxes(a.box_confidence, corners, a.box_class_probs,
                               a.score_threshold)
        scaled == scale_boxes(f.boxes, a.image_shape)
        max_boxes == IF sess.variables = <<>> THEN a.max_boxes
                     ELSE sess.variables[Len(sess.variables)]
        r == yolo_non_max_suppression(f.scores, scaled, f.classes, max_boxes,
                                      a.iou_threshold, TieOrder(f.scores, sess.ties))
    IN  [scores |-> r.scores, boxes |-> r.boxes, classes |-> r.classes]

\* One whole call of yolo_eval with the arguments a in the session sess: the
\* four statements of SpecEval in sequence, and the returned triple
yolo_eval(a, sess) ==
    LET corners == yolo_boxes_to_corners(a.box_xy, a.box_wh)
        f == yolo_filter_boxes(a.box_confidence, corners, a.box_class_probs,
                               a.score_threshold)
        scaled == scale_boxes(f.boxes, a.image_shape)
        r == yolo_non_max_suppression(f.scores, scaled, f.classes, a.max_boxes,
                                      a.iou_threshold, TieOrder(f.scores, sess.ties))
    IN  [scores |-> r.scores, boxes |-> r.boxes, classes |-> r.classes]

\* What a call leaves in the session: yolo_non_max_suppression creates the
\* variable max_boxes_tensor and runs its initialiser
session_after(a, sess) ==
    [sess EXCEPT !.variables = Append(@, a.max_boxes)]

\* Arguments that differ from a in max_boxes or in score_threshold
OtherArgs(a) ==
    {[a EXCEPT !.max_boxes = m] : m \in EvalMaxBoxesArgs \ {a.max_boxes}}
        \cup {[a EXCEPT !.score_threshold = t] :
                  t \in EvalScoreThresholds \ {a.score_threshold}}

\* args.same are the arguments of the two calls compared, args.other those of
\* the calls in between; calls and ret list the calls made and what each returned
InitPure ==
    /\ pc = "first"
    /\ \E a \in EvalArgs : \E b \in OtherArgs(a) : args = [same |-> a, other |-> b]
    /\ ret = <<>>
    /\ calls = <<>>
    /\ session \in [ties : KernelTies, variables : {<<>>}]

Pure_first ==
    /\ pc = "first"
    /\ ret' = Append(ret, yolo_eval(args.same, session))
    /\ calls' = Append(calls, args.same)
    /\ session' = session_after(args.same, session)
    /\ pc' = "between"
    /\ UNCHANGED args

Pure_between ==
    /\ pc = "between"
    /\ Len(calls) <= MaxBetween
    /\ ret' = Append(ret, yolo_eval(args.other, session))
    /\ calls' = Append(calls, args.other)
    /\ session' = session_after(args.other, session)
    /\ UNCHANGED <<pc, args>>

Pure_second ==
    /\ pc = "between"
    /\ ret' = Append(ret, yolo_eval(args.same, session))
    /\ calls' = Append(calls, args.same)
    /\ session' = session_after(args.same, session)
    /\ pc' = "done"
    /\ UNCHANGED args

NextPure == Pure_first \/ Pure_between \/ Pure_second

SpecPure == InitPure /\ [][NextPure]_vars

(* Claims about repeated calls of yolo_eval, checked under SpecPure *)

----------------------------------------------------------------------------
(* pool_forward (exam_2_part_2) *)

\* An array of shape (m, n_H, n_W, n_C) is a sequence of sequences, A[i][h][w][c],
\* with positions 1-based here and 0-based in the code.  An entry of A_prev is
\* an integer; an entry of the float array A is a fraction, and nan is Undefined.

PoolBatch == {1, 2}          \* m
PoolChannels == {1, 2}       \* n_C_prev
PoolStrides == {1, 2}        \* hparameters["stride"]
PoolModes == {"max", "average", "median"}   \* mode; "median" is no mode of the code
\* The entries of A_prev tell their position: they grow, or fall, in row-major
\* order, so that no two windows have the same maximum and mean
PoolPatterns == {1, -1}

PoolInput(m, n_H_prev, n_W_prev, n_C_prev, pattern) ==
    [i \in 1..m |-> [r \in 1..n_H_prev |-> [q \in 1..n_W_prev |-> [c \in 1..n_C_prev |->
        pattern * ((((i - 1) * n_H_prev + (r - 1)) * n_W_prev + (q - 1)) * n_C_prev + c)]]]]

\* int(n/d) for d > 0: the quotient truncated towards zero
int_div(n, d) == IF n >= 0 THEN n \div d ELSE -((-n) \div d)

\* n_H = int(1 + (n_H_prev-f)/stride), and n_W alike
out_dim(n_prev, f, stride) == int_div(stride + (n_prev - f), stride)

\* The 1-based positions that the slice start:end (0 <= start) selects on an
\* axis of length n: the slice is cut at the end of the axis
slice_range(start, end, n) == (Min2(start, n) + 1)..Min2(end, n)

\* a_prev_slice = A_prev[i, horiz_start:horiz_end, vert_start:vert_end, c], as
\* the set of the (first axis, second axis) positions it holds
a_prev_slice(A_prev, i, horiz_start, horiz_end, vert_start, vert_end) ==
    slice_range(horiz_start, horiz_end, Len(A_prev[i]))
        \X slice_range(vert_start, vert_end, Len(A_prev[i][1]))

RECURSIVE SumAt(_, _, _, _)
SumAt(A_prev, i, c, cells) ==
    IF cells = {} THEN 0
    ELSE LET x == CHOOSE x \in cells : TRUE
         IN  A_prev[i][x[1]][x[2]][c] + SumAt(A_prev, i, c, cells \ {x})

\* np.max of the slice (not empty)
np_max(A_prev, i, c, cells) ==
    LET v == CHOOSE v \in {A_prev[i][x[1]][x[2]][c] : x \in cells} :
                 \A x \in cells : A_prev[i][x[1]][x[2]][c] <= v
    IN  <<v, 1>>

\* np.mean of the slice; of an empty slice it is nan
np_mean(A_prev, i, c, cells) ==
    IF cells = {} THEN Undefined
    ELSE Quot(SumAt(A_prev, i, c, cells), Cardinality(cells))

\* pool_forward(A_prev, hparameters, mode): the exception raised, the shape of
\* A, the slice a_prev_slice taken for every (h, w) and the array A returned.  np.zeros raises ValueError for a negative
\* dimension and np.max raises ValueError for an empty slice; a mode that is
\* neither "max" nor "average" leaves the zeros of np.zeros in A.
pool_forward(A_prev, hparameters, mode) ==
    LET m == Len(A_prev)
        n_H_prev == Len(A_prev[1])
        n_W_prev == Len(A_prev[1][1])
        n_C_prev == Len(A_prev[1][1][1])
        f == hparameters.f
        stride == hparameters.stride
        n_H == out_dim(n_H_prev, f, stride)
        n_W == out_dim(n_W_prev, f, stride)
        n_C == n_C_prev
        cells(h, w) ==
            LET vert_start == stride * (h - 1)
                vert_end == stride * (h - 1) + f
                horiz_start == stride * (w - 1)
                horiz_end == stride * (w - 1) + f
            IN  a_prev_slice(A_prev, 1, horiz_start, horiz_end, vert_start, vert_end)
        raises ==
            \/ n_H < 0
            \/ n_W < 0
            \/ /\ mode = "max"
               /\ \E h \in 1..n_H, w \in 1..n_W : cells(h, w) = {}
    IN  IF raises THEN [raised |-> "ValueError", shape |-> <<>>, slices |-> <<>>,
                        A |-> <<>>]
        ELSE [raised |-> None,
              shape  |-> <<m, n_H, n_W, n_C>>,
              slices |-> [h \in 1..n_H |-> [w \in 1..n_W |-> cells(h, w)]],
              A      |-> [i \in 1..m |-> [h \in 1..n_H |-> [w \in 1..n_W |->
                            [c \in 1..n_C |->
                                IF mode = "max" THEN np_max(A_prev, i, c, cells(h, w))
                                ELSE IF mode = "average"
                                     THEN np_mean(A_prev, i, c, cells(h, w))
                                     ELSE <<0, 1>>]]]]]

\* The arguments of one call of pool_forward
PoolArgs ==
    {[A_prev      |-> PoolInput(m, n_H_prev, n_W_prev, n_C_prev, pattern),
      hparameters |-> [f |-> f, stride |-> stride],
      mode        |-> mode] :
        m \in PoolBatch, n_H_prev \in 1..MaxPoolDim, n_W_prev \in 1..MaxPoolDim,
        n_C_prev \in PoolChannels, pattern \in PoolPatterns,
        f \in 1..MaxPoolDim, stride \in PoolStrides, mode \in PoolModes}

InitPool ==
    /\ pc = "call"
    /\ args \in PoolArgs
    /\ ret = None
    /\ calls = <<>>
    /\ session = <<>>

Pool_call ==
    /\ pc = "call"
    /\ ret' = pool_forward(args.A_prev, args.hparameters, args.mode)
    /\ pc' = IF ret'.raised = None THEN "done" ELSE "raised"
    /\ UNCHANGED <<args, calls, session>>

NextPool == Pool_call

SpecPool == InitPool /\ [][NextPool]_vars

(* Claims about pool_forward, checked under SpecPool *)

\* The rows and columns of the window of output position (h, w), 0-based as in
\* the claim: rows h*stride..h*stride+f-1 and columns w*stride..w*stride+f-1
WindowRows(h) == (h * args.hparameters.stride)..(h * args.hparameters.stride + args.hparameters.f - 1)
WindowCols(w) == (w * args.hparameters.stride)..(w * args.hparameters.stride + args.hparameters.f - 1)

\* The entries of A_prev[i, :, :, c] in that window (i, c 0-based)
WindowValues(i, h, w, c) ==
    {args.A_prev[i + 1][r + 1][q + 1][c + 1] : r \in WindowRows(h), q \in WindowCols(w)}

RECURSIVE SumOf(_)
SumOf(S) == IF S = {} THEN 0 ELSE LET x == CHOOSE x \in S : TRUE IN x + SumOf(S \ {x})

\* The pooled value of a window of distinct entries
Pooled(S) ==
    IF args.mode = "max" THEN <<CHOOSE v \in S : \A x \in S : x <= v, 1>>
    ELSE Quot(SumOf(S), Cardinality(S))

\* The input is at least as large as the window
WindowFits ==
    /\ args.hparameters.f <= Len(args.A_prev[1])
    /\ args.hparameters.f <= Len(args.A_prev[1][1])

\* floor((n_prev - f)/stride) + 1
FloorDim(n_prev) == ((n_prev - args.hparameters.f) \div args.hparameters.stride) + 1

\* C12: for every input that holds at least one window, mode "max" or
\* "average", pool_forward returns, and the entry A[i,h,w,c] it returns is the
\* maximum (the mean) of the f x f window of A_prev[i,:,:,c] whose rows are
\* h*stride..h*stride+f-1 and whose columns are w*stride..w*stride+f-1, also
\* when n_H_prev differs from n_W_prev.
C12_PoolsTheWindow ==
    (pc # "call" /\ WindowFits /\ args.mode \in {"max", "average"}) =>
        /\ pc = "done"
        /\ \A i \in 0..(Len(args.A_prev) - 1) :
           \A h \in 0..(FloorDim(Len(args.A_prev[1])) - 1) :
           \A w \in 0..(FloorDim(Len(args.A_prev[1][1])) - 1) :
           \A c \in 0..(Len(args.A_prev[1][1][1]) - 1) :
               ret.A[i + 1][h + 1][w + 1][c + 1] = Pooled(WindowValues(i, h, w, c))

\* C13 (on the inputs that hold at least one window: f <= n_H_prev and
\* f <= n_W_prev, stride >= 1): pool_forward returns an output of shape
\* (m, n_H, n_W, n_C) with n_H = floor((n_H_prev - f)/stride) + 1,
\* n_W = floor((n_W_prev - f)/stride) + 1 and n_C = n_C_prev, having passed its
\* final shape assertion.
C13_OutputShape ==
    (pc # "call" /\ WindowFits) =>
        /\ pc = "done"
        /\ ret.shape = <<Len(args.A_prev),
                         FloorDim(Len(args.A_prev[1])),
                         FloorDim(Len(args.A_prev[1][1])),
                         Len(args.A_prev[1][1][1])>>

\* The rows and the columns of A_prev that a slice holds
RowsOf(cells) == {x[1] : x \in cells}
ColsOf(cells) == {x[2] : x \in cells}

\* C28: every window that pool_forward reads lies inside the input: for all
\* shapes with n_H_prev >= f, n_W_prev >= f and stride >= 1 the call raises
\* nothing, and for every output index (h, w) the slice taken from A_prev has
\* exactly f rows and f columns: it is never cut short and never empty.
C28_WindowsInsideInput ==
    (pc # "call" /\ WindowFits) =>
        /\ pc = "done"
        /\ \A h \in 1..Len(ret.slices) : \A w \in 1..Len(ret.slices[h]) :
              /\ Cardinality(RowsOf(ret.slices[h][w])) = args.hparameters.f
              /\ Cardinality(ColsOf(ret.slices[h][w])) = args.hparameters.f

\* C29: pool_forward called with a mode other than "max" or "average" signals
\* an error: it does not return an output array.
C29_InvalidModeRaises ==
    (pc # "call" /\ args.mode \notin {"max", "average"}) => pc = "raised"

----------------------------------------------------------------------------
(* initialize_parameters_he (exam_2_part_2) *)

\* The state of numpy's global random generator: the seed it was last given
\* and the number of normal variates drawn since.  The k-th variate drawn after
\* np.random.seed(s) is a fixed number; an entry of a weight matrix is modelled
\* by the variate it was drawn as and the factor sqrt(2/fan_in) it was scaled by.
RngSeeds == {1, 3}
RngDrawn == {0, 1, 5}

\* layers_dims[l] of the code is layers_dims[l + 1] here
dim(layers_dims, l) == layers_dims[l + 1]

\* The number of variates drawn for the layers before layer l
RECURSIVE drawn_before(_, _)
drawn_before(layers_dims, l) ==
    IF l <= 1 THEN 0
    ELSE drawn_before(layers_dims, l - 1)
             + dim(layers_dims, l - 1) * dim(layers_dims, l - 2)

layer_range_short(layers_dims) == 1..(Len(layers_dims) - 2)

\* L = len(layers_dims) - 1 and range(1, L+1)
layer_range(layers_dims) == 1..(Len(layers_dims) - 1)

\* np.random.randn(layers_dims[l], layers_dims[l-1]) * np.sqrt(2.0 / layers_dims[l-1])
he_weights(layers_dims, l, seed) ==
    [r \in 1..dim(layers_dims, l) |-> [q \in 1..dim(layers_dims, l - 1) |->
        [seed     |-> seed,
         variate  |-> drawn_before(layers_dims, l) + (r - 1) * dim(layers_dims, l - 1) + q,
         sqrt_of  |-> Quot(2, dim(layers_dims, l - 1))]]]

\* np.zeros((layers_dims[l], 1))
he_bias(layers_dims, l) == [r \in 1..dim(layers_dims, l) |-> <<0>>]

\* initialize_parameters_he(layers_dims): the dictionary returned, the key
\* 'W' + str(l) written <<"W", l>>
initialize_parameters_he(layers_dims) ==
    [k \in {"W", "b"} \X layer_range(layers_dims) |->
        IF k[1] = "W" THEN he_weights(layers_dims, k[2], 3)
        ELSE he_bias(layers_dims, k[2])]

\* The generator after the call: seeded with 3, and advanced by every variate
rng_after(layers_dims) ==
    [seed |-> 3, drawn |-> drawn_before(layers_dims, Len(layers_dims))]

HeArgs ==
    UNION {[layers_dims : [1..n -> 1..MaxLayerDim]] : n \in 0..MaxLayers}

InitHe ==
    /\ pc = "call"
    /\ args \in HeArgs
    /\ ret = None
    /\ calls = <<>>
    /\ session \in [seed : RngSeeds, drawn : RngDrawn]

He_call ==
    /\ pc = "call"
    /\ ret' = initialize_parameters_he(args.layers_dims)
    /\ session' = rng_after(args.layers_dims)
    /\ pc' = "done"
    /\ UNCHANGED <<args, calls>>

NextHe == He_call

SpecHe == InitHe /\ [][NextHe]_vars

(* Claims about initialize_parameters_he, checked under SpecHe *)

\* The shape of a matrix with at least one row
Shape(M) == <<Len(M), Len(M[1])>>

\* C14: for every list layers_dims of n layer sizes (each at least 1),
\* initialize_parameters_he returns a dictionary whose keys are exactly W1 ..
\* W(n-1) and b1 .. b(n-1); Wl has shape (layers_dims[l], layers_dims[l-1]) and
\* bl has shape (layers_dims[l], 1) with every entry zero.  For n = 1 the
\* dictionary is empty.
C14_HeKeysAndShapes ==
    pc = "done" =>
        LET n == Len(args.layers_dims)
        IN  /\ DOMAIN ret = {<<"W", l>> : l \in 1..(n - 1)} \cup {<<"b", l>> : l \in 1..(n - 1)}
            /\ \A l \in 1..(n - 1) :
                  /\ Shape(ret[<<"W", l>>]) = <<args.layers_dims[l + 1], args.layers_dims[l]>>
                  /\ Shape(ret[<<"b", l>>]) = <<args.layers_dims[l + 1], 1>>
                  /\ \A r \in 1..args.layers_dims[l + 1] : ret[<<"b", l>>][r][1] = 0

\* The call has returned the four parameters of a network of three layers of
\* different sizes.
C14_Witness ==
    /\ pc = "done"
    /\ Len(args.layers_dims) = 3
    /\ args.layers_dims[1] # args.layers_dims[2]
    /\ args.layers_dims[2] # args.layers_dims[3]
    /\ Cardinality(DOMAIN ret) = 4
    /\ Shape(ret[<<"W", 2>>]) = <<args.layers_dims[3], args.layers_dims[2]>>
    /\ Shape(ret[<<"W", 1>>]) # Shape(ret[<<"W", 2>>])

\* C26 (checked under SpecHe, on the state of the process-wide random
\* generator): no exercise function changes state that outlives the call: no
\* step of a call of initialize_parameters_he changes the generator's state.
C26_NoStateOutlivesCall == [][session' = session]_vars

----------------------------------------------------------------------------
(* triplet_loss (exam_2_part_2) *)

\* An encoding is a vector of integers; a tensor of shape (None, d) is the
\* sequence of its rows, one per training example.  alpha is an integer.
EncodingAxis == {1, 2}            \* positions of the last axis
EncodingValues == {0, 1}          \* entries of an encoding
TripletAlphas == {1}              \* alpha arguments
\* y_true arguments: the tuple (None, None, None) of the notebook, or labels
YTrues == {"(None, None, None)", "labels"}

RECURSIVE SeqSum(_)
SeqSum(s) == IF s = <<>> THEN 0 ELSE Head(s) + SeqSum(Tail(s))

\* tf.reduce_sum(tf.square(tf.subtract(x, y)), axis=-1)
squared_distance(x, y) ==
    [i \in 1..Len(x) |-> SeqSum([k \in 1..Len(x[i]) |-> (x[i][k] - y[i][k]) * (x[i][k] - y[i][k])])]

triplet_loss_no_clamp(y_true, y_pred, alpha) ==
    LET anchor == y_pred[1]
        positive == y_pred[2]
        negative == y_pred[3]
        pos_dist == squared_distance(anchor, positive)
        neg_dist == squared_distance(anchor, negative)
        basic_loss == [i \in 1..Len(pos_dist) |-> (pos_dist[i] - neg_dist[i]) + alpha]
    IN  [pos_dist |-> pos_dist, neg_dist |-> neg_dist, basic_loss |-> basic_loss,
         loss |-> SeqSum(basic_loss)]

triplet_loss_clamp_total(y_true, y_pred, alpha) ==
    LET anchor == y_pred[1]
        positive == y_pred[2]
        negative == y_pred[3]
        pos_dist == squared_distance(anchor, positive)
        neg_dist == squared_distance(anchor, negative)
        basic_loss == [i \in 1..Len(pos_dist) |-> (pos_dist[i] - neg_dist[i]) + alpha]
    IN  [pos_dist |-> pos_dist, neg_dist |-> neg_dist, basic_loss |-> basic_loss,
         loss |-> Max2(SeqSum(basic_loss), 0)]

\* triplet_loss(y_true, y_pred, alpha): its locals and the loss returned
triplet_loss(y_true, y_pred, alpha) ==
    LET anchor == y_pred[1]
        positive == y_pred[2]
        negative == y_pred[3]
        pos_dist == squared_distance(anchor, positive)
        neg_dist == squared_distance(anchor, negative)
        basic_loss == [i \in 1..Len(pos_dist) |-> (pos_dist[i] - neg_dist[i]) + alpha]
    IN  [pos_dist |-> pos_dist, neg_dist |-> neg_dist, basic_loss |-> basic_loss,
         loss |-> SeqSum([i \in 1..Len(basic_loss) |-> Max2(basic_loss[i], 0)])]

\* The encodings of n images; those of the anchors lie on the first axis
Encodings(n) == [1..n -> [EncodingAxis -> EncodingValues]]
AnchorEncodings(n) == {a \in Encodings(n) : \A i \in 1..n : a[i][2] = 0}

TripletArgs ==
    UNION {[y_true : YTrues,
            y_pred : AnchorEncodings(n) \X Encodings(n) \X Encodings(n),
            alpha  : TripletAlphas] : n \in 0..MaxTriplets}

InitTriplet ==
    /\ pc = "call"
    /\ args \in TripletArgs
    /\ ret = None
    /\ calls = <<>>
    /\ session = <<>>

Triplet_call ==
    /\ pc = "call"
    /\ ret' = triplet_loss(args.y_true, args.y_pred, args.alpha)
    /\ pc' = "done"
    /\ UNCHANGED <<args, calls, session>>

NextTriplet == Triplet_call

SpecTriplet == InitTriplet /\ [][NextTriplet]_vars

(* Claims about triplet_loss, checked under SpecTriplet *)

\* ||u - v||^2
SqNorm(u, v) == SeqSum([k \in 1..Len(u) |-> (u[k] - v[k]) * (u[k] - v[k])])

\* max(||a_i - p_i||^2 - ||a_i - n_i||^2 + alpha, 0) of example i
HingeOf(i) ==
    Max2(SqNorm(args.y_pred[1][i], args.y_pred[2][i])
             - SqNorm(args.y_pred[1][i], args.y_pred[3][i]) + args.alpha, 0)

\* The sum over the examples 1..n of their hinge terms
RECURSIVE HingeSum(_)
HingeSum(n) == IF n = 0 THEN 0 ELSE HingeSum(n - 1) + HingeOf(n)

\* C15: triplet_loss returns the sum over the examples i of
\* max(||a_i - p_i||^2 - ||a_i - n_i||^2 + alpha, 0): the clamp at 0 is applied
\* to every example before the sum, and the value does not depend on y_true.
C15_TripletLossFormula ==
    pc = "done" =>
        /\ ret.loss = HingeSum(Len(args.y_pred[1]))
        /\ \A y \in YTrues : triplet_loss(y, args.y_pred, args.alpha).loss = ret.loss

\* The call has returned for two examples, one whose basic loss is negative and
\* one whose basic loss is positive, with a loss larger than their clamped sum.
C15_Witness ==
    /\ pc = "done"
    /\ Len(args.y_pred[1]) = 2
    /\ ret.basic_loss[1] < 0
    /\ ret.basic_loss[2] > 0
    /\ ret.loss = ret.basic_loss[2]
    /\ ret.loss > Max2(ret.basic_loss[1] + ret.basic_loss[2], 0)
    /\ args.y_true = "labels"

\* Triplet i satisfies the margin:
\* ||anchor_i - positive_i||^2 + alpha <= ||anchor_i - negative_i||^2
SatisfiesMargin(i) ==
    SqNorm(args.y_pred[1][i], args.y_pred[2][i]) + args.alpha
        <= SqNorm(args.y_pred[1][i], args.y_pred[3][i])

\* C30: triplet_loss is never negative, and it is zero iff every triplet
\* satisfies the margin: one triplet that violates the margin makes the loss
\* positive, however well the other triplets satisfy it.
C30_TripletLossNonNegative ==
    pc = "done" =>
        /\ ret.loss >= 0
        /\ ret.loss = 0 <=> \A i \in 1..Len(args.y_pred[1]) : SatisfiesMargin(i)
        /\ (\E i \in 1..Len(args.y_pred[1]) : ~SatisfiesMargin(i)) => ret.loss > 0

\* The call has returned a positive loss for two triplets, the first violating
\* the margin and the second satisfying it by at least as much.
C30_Witness ==
    /\ pc = "done"
    /\ Len(args.y_pred[1]) = 2
    /\ ~SatisfiesMargin(1)
    /\ SatisfiesMargin(2)
    /\ ret.basic_loss[1] + ret.basic_loss[2] <= 0
    /\ ret.loss > 0

----------------------------------------------------------------------------
(* conv_single_step (exam_2_part_2) *)

\* A volume of shape (f, f, n_C_prev) is a sequence of sequences of sequences
\* of integers, V[i][j][k]; b has shape (1, 1, 1).
ConvChannels == {1, 2}        \* n_C_prev
ConvBases == {-1, 0, 1}       \* the first entry of a volume
ConvSteps == {0, 1, -2}       \* the growth of its entries in row-major order
ConvBiases == {-1, 0, 2}      \* the entry of b

\* The volume of shape (f, f, n_C_prev) whose entries start at base and grow by
\* step from each position to the next in row-major order
ConvVolume(f, n_C_prev, base, step) ==
    [i \in 1..f |-> [j \in 1..f |-> [k \in 1..n_C_prev |->
        base + step * (((i - 1) * f + (j - 1)) * n_C_prev + (k - 1))]]]

ConvVolumes(f, n_C_prev) ==
    {ConvVolume(f, n_C_prev, base, step) : base \in ConvBases, step \in ConvSteps}

\* np.multiply(a_slice_prev, W): the element-wise product
np_multiply(x, y) ==
    [i \in 1..Len(x) |-> [j \in 1..Len(x[i]) |-> [k \in 1..Len(x[i][j]) |->
        x[i][j][k] * y[i][j][k]]]]

\* np.sum(s): the sum over all entries of the volume
np_sum(s) ==
    SeqSum([i \in 1..Len(s) |-> SeqSum([j \in 1..Len(s[i]) |-> SeqSum(s[i][j])])])

\* float(b) of an array with one entry
float_of(b) == b[1][1][1]

conv_single_step_bias_everywhere(a_slice_prev, W, b) ==
    LET s == [i \in 1..Len(W) |-> [j \in 1..Len(W[i]) |-> [k \in 1..Len(W[i][j]) |->
                 a_slice_prev[i][j][k] * W[i][j][k] + float_of(b)]]]
    IN  np_sum(s)

\* conv_single_step(a_slice_prev, W, b)
conv_single_step(a_slice_prev, W, b) ==
    LET s == np_multiply(a_slice_prev, W)
        Z == np_sum(s)
    IN  Z + float_of(b)

ConvArgs ==
    UNION {[a_slice_prev : ConvVolumes(f, n_C_prev),
            W            : ConvVolumes(f, n_C_prev),
            b            : {<<<<<<v>>>>>> : v \in ConvBiases}] :
               f \in 1..MaxConvF, n_C_prev \in ConvChannels}

InitConv ==
    /\ pc = "call"
    /\ args \in ConvArgs
    /\ ret = None
    /\ calls = <<>>
    /\ session = <<>>

Conv_call ==
    /\ pc = "call"
    /\ ret' = conv_single_step(args.a_slice_prev, args.W, args.b)
    /\ pc' = "done"
    /\ UNCHANGED <<args, calls, session>>

NextConv == Conv_call

SpecConv == InitConv /\ [][NextConv]_vars

(* Claims about conv_single_step, checked under SpecConv *)

\* The positions of the volume
ConvPositions == (1..Len(args.W)) \X (1..Len(args.W)) \X (1..Len(args.W[1][1]))

RECURSIVE ProductSum(_)
ProductSum(P) ==
    IF P = {} THEN 0
    ELSE LET p == CHOOSE p \in P : TRUE
         IN  args.a_slice_prev[p[1]][p[2]][p[3]] * args.W[p[1]][p[2]][p[3]]
                 + ProductSum(P \ {p})

=============================================================================
